---- MODULE Spec2Model ----
(***************************************************************************)
(* The UTXO / aggregate-UTXO / snapshot read path of codechain-indexer:    *)
(* the express middleware chain of src/routers/asset.ts                    *)
(* (parseEvaluatedKey, validate, syncIfNeeded, route handler), the cursor  *)
(* codec, the query engines and the pagination result builder, together    *)
(* with a client that pages through the results, and the block routes of  *)
(* src/routers/block.ts in the order of their registration.                *)
(***************************************************************************)
EXTENDS Integers, Sequences, FiniteSets, TLC

(***************************************************************************)
(* Bounds of the model.                                                    *)
(***************************************************************************)
\* number of UTXO rows in the universe the store is drawn from
MaxRows == 6
\* highest block number of the chain (blocks are numbered 0..MaxHeight)
MaxHeight == 2
\* largest itemsPerPage a request asks for explicitly
MaxItemsPerPage == 2
\* largest confirmThreshold a request supplies
MaxThreshold == 2

(***************************************************************************)
(* Optional values: undefined is the empty sequence, a value v is <<v>>.   *)
(***************************************************************************)
None == <<>>
Some(v) == <<v>>
IsSome(m) == m # <<>>
Get(m) == m[1]

Addresses == {"a1", "a2"}
AssetTypes == {"t1", "t2"}
\* the page size of a request that names none
DefaultItemsPerPage == 15
\* a string that is not a well-formed 160-bit hash
BadAssetType == "zz"

(***************************************************************************)
(* JSON text, as a sequence of lexical tokens.  A number is its decimal    *)
(* digits, a string literal is  " content " , an array is  [ e , e ] .     *)
(***************************************************************************)
DigitChar == <<"0", "1", "2", "3", "4", "5", "6", "7", "8", "9">>
DigitSet == {DigitChar[i] : i \in 1..10}
DigitValue(c) == (CHOOSE i \in 1..10 : DigitChar[i] = c) - 1

RECURSIVE NumberToString(_)
NumberToString(n) ==
    IF n < 10 THEN <<DigitChar[n + 1]>>
    ELSE NumberToString(n \div 10) \o <<DigitChar[(n % 10) + 1]>>

IsDigits(s) == Len(s) > 0 /\ \A i \in 1..Len(s) : s[i] \in DigitSet

RECURSIVE DigitsToNumber(_)
DigitsToNumber(s) ==
    IF Len(s) = 0 THEN 0
    ELSE 10 * DigitsToNumber(SubSeq(s, 1, Len(s) - 1)) + DigitValue(s[Len(s)])

\* parseInt(x, 10) of a non-negative integer: String(x), then the digits read back
parseInt(n) == DigitsToNumber(NumberToString(n))

Quote == "\""
IsStringLiteral(s) == Len(s) = 3 /\ s[1] = Quote /\ s[3] = Quote /\ s[2] # Quote

\* JavaScript values are tagged with their type t; num is the value of a number,
\* text the characters of a string, elems the elements of an array
JValue(t, num, text, elems) == [t |-> t, num |-> num, text |-> text, elems |-> elems]
JNumber(n) == JValue("number", n, <<>>, <<>>)
JString(s) == JValue("string", 0, <<s>>, <<>>)
JNull == JValue("null", 0, <<>>, <<>>)
JArray(a) == JValue("array", 0, <<>>, a)
JUndefined == JValue("undefined", 0, <<>>, <<>>)
\* a query value that is still the text the client sent
JText(s) == JValue("text", 0, s, <<>>)

\* JSON.stringify of an array of numbers / of strings
RECURSIVE JoinElems(_)
JoinElems(elems) ==
    IF Len(elems) = 0 THEN <<>>
    ELSE IF Len(elems) = 1 THEN elems[1]
    ELSE elems[1] \o <<",">> \o JoinElems(Tail(elems))

StringifyNumbers(k) ==
    <<"[">> \o JoinElems([i \in 1..Len(k) |-> NumberToString(k[i])]) \o <<"]">>
StringifyStrings(k) ==
    <<"[">> \o JoinElems([i \in 1..Len(k) |-> <<Quote, k[i], Quote>>]) \o <<"]">>

\* a scalar JSON text: number, string literal or null
IsScalarText(s) == IsDigits(s) \/ IsStringLiteral(s) \/ s = <<"null">>
ScalarValue(s) ==
    IF IsDigits(s) THEN JNumber(DigitsToNumber(s))
    ELSE IF IsStringLiteral(s) THEN JString(s[2])
    ELSE JNull

\* the elements between the brackets: [ok, v], split at the commas
RECURSIVE ParseElems(_, _)
ParseElems(s, cur) ==
    IF Len(s) = 0
    THEN IF IsScalarText(cur) THEN [ok |-> TRUE, v |-> <<ScalarValue(cur)>>]
         ELSE [ok |-> FALSE, v |-> <<>>]
    ELSE IF s[1] = ","
    THEN IF IsScalarText(cur)
         THEN LET rest == ParseElems(Tail(s), <<>>)
              IN  [ok |-> rest.ok, v |-> <<ScalarValue(cur)>> \o rest.v]
         ELSE [ok |-> FALSE, v |-> <<>>]
    ELSE ParseElems(Tail(s), Append(cur, s[1]))

\* JSON.parse: [ok |-> FALSE] is a thrown SyntaxError
JSONparse(s) ==
    IF IsScalarText(s) THEN [ok |-> TRUE, v |-> ScalarValue(s)]
    ELSE IF Len(s) >= 2 /\ s[1] = "[" /\ s[Len(s)] = "]"
    THEN IF Len(s) = 2 THEN [ok |-> TRUE, v |-> JArray(<<>>)]
         ELSE LET e == ParseElems(SubSeq(s, 2, Len(s) - 1), <<>>)
              IN  IF e.ok THEN [ok |-> TRUE, v |-> JArray(e.v)]
                  ELSE [ok |-> FALSE, v |-> JUndefined]
    ELSE [ok |-> FALSE, v |-> JUndefined]

\* JavaScript truthiness of a query value
Truthy(x) ==
    CASE x.t = "undefined" -> FALSE
      [] x.t = "null" -> FALSE
      [] x.t = "number" -> x.num # 0
      [] x.t = "string" -> x.text # <<"">>
      [] x.t = "text" -> Len(x.text) > 0
      [] x.t = "array" -> TRUE

(***************************************************************************)
(* The persisted records.  Row i of the universe is an unspent output;     *)
(* its sort key (blockNumber, actionId, outputIndex) is unique.            *)
(***************************************************************************)
AddressOf(i) == IF i % 2 = 0 THEN "a1" ELSE "a2"
AssetTypeOf(i) == IF (i \div 2) % 2 = 0 THEN "t1" ELSE "t2"

UTXO(i) ==
    [id |-> i,
     address |-> AddressOf(i),
     assetType |-> AssetTypeOf(i),
     shardId |-> IF i % 4 = 3 THEN 1 ELSE 0,
     blockNumber |-> (i \div 2) % (MaxHeight + 1),
     actionId |-> i % 2,
     outputIndex |-> i \div (2 * (MaxHeight + 1))]

\* the outputs created in the blocks 0..height
UTXOsUpTo(height) == {UTXO(i) : i \in {j \in 1..MaxRows : UTXO(j).blockNumber <= height}}

Block(n) == [number |-> n, timestamp |-> 10 * (n + 1), hash |-> [h |-> n]]

\* moment(date): an ISO-8601 text  1970-01-01T00:00:ssZ  is valid when ss is
\* two digits below 60; unix() is then its number of seconds
IsoPrefix == "1970-01-01T00:00:"
moment(date) ==
    IF /\ Len(date) = 4
       /\ date[1] = IsoPrefix
       /\ IsDigits(SubSeq(date, 2, 3))
       /\ date[4] = "Z"
       /\ DigitsToNumber(SubSeq(date, 2, 3)) < 60
    THEN [isValid |-> TRUE, unix |-> DigitsToNumber(SubSeq(date, 2, 3))]
    ELSE [isValid |-> FALSE, unix |-> 0]

IsoDate(sec) == <<IsoPrefix, DigitChar[(sec \div 10) + 1], DigitChar[(sec % 10) + 1], "Z">>

\* new H160(text): throws unless the text is a well-formed hash
H160(text) ==
    IF text \in AssetTypes THEN [ok |-> TRUE, value |-> text]
    ELSE [ok |-> FALSE, value |-> ""]

(***************************************************************************)
(* Sort keys and their order.                                              *)
(***************************************************************************)
StringOrder == <<"a1", "a2", "t1", "t2">>
StringRank(s) == CHOOSE i \in 1..Len(StringOrder) : StringOrder[i] = s

RECURSIVE NumbersLess(_, _)
NumbersLess(k1, k2) ==
    IF Len(k1) = 0 \/ Len(k2) = 0 THEN Len(k1) < Len(k2)
    ELSE IF k1[1] # k2[1] THEN k1[1] < k2[1]
    ELSE NumbersLess(Tail(k1), Tail(k2))

\* a tuple of strings as the tuple of their ranks
Ranks(k) == [i \in 1..Len(k) |-> StringRank(k[i])]
StringsLess(k1, k2) == NumbersLess(Ranks(k1), Ranks(k2))

\* the plain tuple of a decoded cursor
KeyOf(cursor) ==
    [i \in 1..Len(cursor.elems) |->
        IF cursor.elems[i].t = "number" THEN cursor.elems[i].num
        ELSE cursor.elems[i].text[1]]

UTXOKey(row) == <<row.blockNumber, row.actionId, row.outputIndex>>

AggsKey(row, order) ==
    IF order = "assetType" THEN <<row.assetType, row.address>>
    ELSE <<row.address, row.assetType>>

\* the sort keys of the rows of S, as tuples of numbers
UTXOKeys(S) == [r \in S |-> UTXOKey(r)]
AggsKeys(S, order) == [r \in S |-> Ranks(AggsKey(r, order))]

\* the elements of S in ascending order of their sort keys, key[r] being the
\* key of row r
Ascending(S, key) ==
    [i \in 1..Cardinality(S) |->
        CHOOSE r \in S : Cardinality({x \in S : NumbersLess(key[x], key[r])}) = i - 1]
Reverse(s) == [i \in 1..Len(s) |-> s[Len(s) + 1 - i]]
Take(s, n) == SubSeq(s, 1, IF n < Len(s) THEN n ELSE Len(s))

(***************************************************************************)
(* Cursor codec.                                                           *)
(***************************************************************************)
createUTXOEvaluatedKey(row) == StringifyNumbers(UTXOKey(row))
createAggsUTXOEvaluatedKey(row, order) == StringifyStrings(AggsKey(row, order))

(***************************************************************************)
(* State.                                                                  *)
(***************************************************************************)
VARIABLES
    utxos,            \* the persisted unspent outputs
    bestBlockNumber,  \* number of the latest indexed block, -1 when there is none
    req,              \* the request being served: [route, path, query, sent], sent being
                      \* the query as the client sent it
    pc,               \* the middleware of the route's chain that runs next
    res,              \* the responses sent for the request, in order
    nextCalls,        \* the calls of next for the request: "" for next(), else the error
    queries,          \* the storage queries issued for the request
    syncCalls,        \* the calls of worker.sync() for the request
    syncOutcome,      \* how worker.sync() settled, None while it has not
    walk              \* the paging client: the pages it has collected

vars == <<utxos, bestBlockNumber, req, pc, res, nextCalls, queries, syncCalls, syncOutcome,
          walk>>

(***************************************************************************)
(* Query engines over the store (models/logic/utxo, models/logic/block).   *)
(***************************************************************************)
\* the confirmation ceiling and the filters: every supplied filter is applied
Eligible(row, p) ==
    /\ IsSome(p.address) => row.address = Get(p.address)
    /\ IsSome(p.assetType) => row.assetType = Get(p.assetType)
    /\ IsSome(p.shardId) => row.shardId = Get(p.shardId)
    /\ (IsSome(p.onlyConfirmed) /\ Get(p.onlyConfirmed))
          => row.blockNumber <= bestBlockNumber - Get(p.confirmThreshold)

\* one page of S in the order of the keys: the rows after the key last in
\* ascending order, or the nearest rows before the key first (queried in
\* descending order, then reversed)
PageOf(S, key, first, last, p) ==
    IF Truthy(p.firstEvaluatedKey)
    THEN Reverse(Take(Reverse(Ascending({r \in S : NumbersLess(key[r], first)}, key)),
                      p.itemsPerPage))
    ELSE IF Truthy(p.lastEvaluatedKey)
    THEN Take(Ascending({r \in S : NumbersLess(last, key[r])}, key), p.itemsPerPage)
    ELSE Take(Ascending(S, key), p.itemsPerPage)

getUTXO(p) ==
    LET rows == {r \in utxos : Eligible(r, p)}
    IN  PageOf(rows, UTXOKeys(rows), KeyOf(p.firstEvaluatedKey), KeyOf(p.lastEvaluatedKey), p)

\* one row per (address, assetType) group of the eligible outputs
AggsRows(p) ==
    {[address |-> g[1], assetType |-> g[2],
      count |-> Cardinality({r \in utxos :
                    Eligible(r, p) /\ r.address = g[1] /\ r.assetType = g[2]})] :
        g \in {<<r.address, r.assetType>> : r \in {x \in utxos : Eligible(x, p)}}}

getAggsUTXO(p) ==
    PageOf(AggsRows(p), AggsKeys(AggsRows(p), p.order),
           Ranks(KeyOf(p.firstEvaluatedKey)), Ranks(KeyOf(p.lastEvaluatedKey)), p)

getCountOfAggsUTXO(p) == Cardinality(AggsRows(p))

\* the latest block whose timestamp is at most the given time, if any
getByTime(time) ==
    LET upTo == {n \in 0..bestBlockNumber : Block(n).timestamp <= time}
    IN  IF upTo = {} THEN None
        ELSE Some(Block(CHOOSE n \in upTo : \A m \in upTo : m <= n))

(***************************************************************************)
(* Pagination result builder (routers/pagination).                         *)
(***************************************************************************)
\* getEvaluatedKey[row] is the cursor text of a row
createPaginationResult(query, rows, getEvaluatedKey, itemsPerPage) ==
    LET backward == Truthy(query.firstEvaluatedKey)
        more == Len(rows) > itemsPerPage
        data == IF ~more THEN rows
                ELSE IF backward THEN SubSeq(rows, 2, Len(rows))
                ELSE SubSeq(rows, 1, itemsPerPage)
    IN  [data |-> data,
         hasNextPage |-> IF backward THEN TRUE ELSE more,
         hasPreviousPage |-> IF backward THEN more ELSE Truthy(query.lastEvaluatedKey),
         firstEvaluatedKey |->
             IF Len(data) = 0 THEN None ELSE Some(getEvaluatedKey[data[1]]),
         lastEvaluatedKey |->
             IF Len(data) = 0 THEN None ELSE Some(getEvaluatedKey[data[Len(data)]])]

\* the snapshot of one asset type as of a block: the first page of its outputs
\* created at or before that block, after lastEvaluatedKey when that is given
getSnapshot(p) ==
    LET After(r) == NumbersLess(KeyOf(p.lastEvaluatedKey), UTXOKey(r))
        asOf == {r \in utxos : r.assetType = p.assetType /\ r.blockNumber <= p.blockNumber}
        from == IF Truthy(p.lastEvaluatedKey) THEN {r \in asOf : After(r)} ELSE asOf
        query == [firstEvaluatedKey |-> JUndefined, lastEvaluatedKey |-> p.lastEvaluatedKey]
    IN  createPaginationResult(query,
                               Take(Ascending(from, UTXOKeys(from)), DefaultItemsPerPage + 1),
                               [r \in from |-> createUTXOEvaluatedKey(r)],
                               DefaultItemsPerPage)

(***************************************************************************)
(* Middleware (models/logic/utils/middleware.ts).  An error is its message, *)
(* a sequence of words; next() without an error is the empty message.      *)
(***************************************************************************)
NoError == <<>>
ConflictError == <<"Conflict", "lastEvaluatedKey", "and", "firstEvaluatedKey">>
SyntaxError == <<"SyntaxError", "Unexpected", "token", "in", "JSON">>
ValidationError == <<"validation", "error">>
InvalidH160 == <<"Invalid", "H160", "string">>
InvalidDateParam == <<"Invalid", "date", "parameter">>
StorageError == <<"SequelizeDatabaseError">>

\* parseEvaluatedKey with the check of the two cursors against each other left out
parseEvaluatedKeyNoConflict(q) ==
    LET first == IF Truthy(q.firstEvaluatedKey)
                 THEN JSONparse(q.firstEvaluatedKey.text)
                 ELSE [ok |-> TRUE, v |-> q.firstEvaluatedKey]
        q1 == [q EXCEPT !.firstEvaluatedKey = first.v]
        last == IF Truthy(q1.lastEvaluatedKey)
                THEN JSONparse(q1.lastEvaluatedKey.text)
                ELSE [ok |-> TRUE, v |-> q1.lastEvaluatedKey]
        q2 == [q1 EXCEPT !.lastEvaluatedKey = last.v]
    IN  IF ~first.ok THEN [query |-> q, next |-> SyntaxError]
        ELSE IF ~last.ok THEN [query |-> q1, next |-> SyntaxError]
        ELSE [query |-> q2, next |-> NoError]

\* parseEvaluatedKey with the catch calling next() without the error
parseEvaluatedKeyNoError(q) ==
    LET first == IF Truthy(q.firstEvaluatedKey)
                 THEN JSONparse(q.firstEvaluatedKey.text)
                 ELSE [ok |-> TRUE, v |-> q.firstEvaluatedKey]
        q1 == [q EXCEPT !.firstEvaluatedKey = first.v]
        last == IF Truthy(q1.lastEvaluatedKey)
                THEN JSONparse(q1.lastEvaluatedKey.text)
                ELSE [ok |-> TRUE, v |-> q1.lastEvaluatedKey]
        q2 == [q1 EXCEPT !.lastEvaluatedKey = last.v]
    IN  IF ~first.ok THEN [query |-> q, next |-> NoError]
        ELSE IF ~last.ok THEN [query |-> q1, next |-> NoError]
        ELSE IF Truthy(q2.lastEvaluatedKey) /\ Truthy(q2.firstEvaluatedKey)
        THEN [query |-> q2, next |-> NoError]
        ELSE [query |-> q2, next |-> NoError]

\* parseEvaluatedKey: the query as it leaves the middleware, and what next is
\* called with
parseEvaluatedKey(q) ==
    LET first == IF Truthy(q.firstEvaluatedKey)
                 THEN JSONparse(q.firstEvaluatedKey.text)
                 ELSE [ok |-> TRUE, v |-> q.firstEvaluatedKey]
        q1 == [q EXCEPT !.firstEvaluatedKey = first.v]
        last == IF Truthy(q1.lastEvaluatedKey)
                THEN JSONparse(q1.lastEvaluatedKey.text)
                ELSE [ok |-> TRUE, v |-> q1.lastEvaluatedKey]
        q2 == [q1 EXCEPT !.lastEvaluatedKey = last.v]
    IN  IF ~first.ok THEN [query |-> q, next |-> SyntaxError]
        ELSE IF ~last.ok THEN [query |-> q1, next |-> SyntaxError]
        ELSE IF Truthy(q2.lastEvaluatedKey) /\ Truthy(q2.firstEvaluatedKey)
        THEN [query |-> q2, next |-> ConflictError]
        ELSE [query |-> q2, next |-> NoError]

\* error.message.search(/ECONNRESET|ECONNREFUSED/) >= 0
IsConnectionError(message) ==
    \E i \in 1..Len(message) : message[i] \in {"ECONNRESET", "ECONNREFUSED"}

\* syncIfNeeded with the return after the 503 response left out
syncIfNeededNoReturn(outcome) ==
    IF outcome = NoError
    THEN [res |-> <<>>, next |-> <<NoError>>]
    ELSE IF IsConnectionError(outcome)
    THEN [res |-> <<[status |-> 503, body |-> [kind |-> "empty"]]>>,
          next |-> <<outcome, NoError>>]
    ELSE [res |-> <<>>, next |-> <<outcome, NoError>>]

\* syncIfNeeded once worker.sync() has settled: outcome is the empty message
\* when it resolved, else the message of the error it rejected with
syncIfNeeded(outcome) ==
    IF outcome = NoError
    THEN [res |-> <<>>, next |-> <<NoError>>]
    ELSE IF IsConnectionError(outcome)
    THEN [res |-> <<[status |-> 503, body |-> [kind |-> "empty"]]>>, next |-> <<>>]
    ELSE [res |-> <<>>, next |-> <<outcome, NoError>>]

\* the cursor shape of a route's query: the sort key of its rows
IsKeyOf(route, c) ==
    /\ c.t = "array"
    /\ IF route = "/aggs-utxo"
       THEN /\ Len(c.elems) = 2
            /\ \A i \in 1..2 : /\ c.elems[i].t = "string"
                               /\ c.elems[i].text[1] \in Addresses \cup AssetTypes
       ELSE Len(c.elems) = 3 /\ \A i \in 1..3 : c.elems[i].t = "number"

\* validate(schema): a cursor that is not a sort key of the route is rejected
validate(route, q) ==
    IF /\ q.firstEvaluatedKey.t = "undefined" \/ IsKeyOf(route, q.firstEvaluatedKey)
       /\ q.lastEvaluatedKey.t = "undefined" \/ IsKeyOf(route, q.lastEvaluatedKey)
    THEN NoError
    ELSE ValidationError

(***************************************************************************)
(* The router.  A path is the sequence of its segments, each segment the   *)
(* text between two slashes; the routes are tried in the order in which    *)
(* router.get registered them.                                             *)
(***************************************************************************)
UTXOPath == <<<<"utxo">>>>
AggsUTXOPath == <<<<"aggs-utxo">>>>
AggsUTXOCountPath == <<<<"aggs-utxo">>, <<"count">>>>
SnapshotPath == <<<<"snapshot">>>>
BlockLatestPath == <<<<"block">>, <<"latest">>>>
BlockCountPath == <<<<"block">>, <<"count">>>>
BlockPath == <<<<"block">>>>

Registered ==
    <<[name |-> "/utxo", pattern |-> UTXOPath],
      [name |-> "/aggs-utxo", pattern |-> AggsUTXOPath],
      [name |-> "/aggs-utxo/count", pattern |-> AggsUTXOCountPath],
      [name |-> "/snapshot", pattern |-> SnapshotPath],
      [name |-> "/block/latest", pattern |-> BlockLatestPath],
      [name |-> "/block/:hashOrNumber", pattern |-> <<<<"block">>, <<":hashOrNumber">>>>],
      [name |-> "/block", pattern |-> BlockPath],
      [name |-> "/block/count", pattern |-> BlockCountPath]>>

\* a segment of a pattern that names a parameter matches any segment
IsParam(segment) == segment = <<":hashOrNumber">>

MatchesPattern(pattern, path) ==
    /\ Len(pattern) = Len(path)
    /\ \A i \in 1..Len(pattern) : IsParam(pattern[i]) \/ pattern[i] = path[i]

\* the route that serves a path: the first registered route it matches
RouteOf(path) ==
    LET i == CHOOSE k \in 1..Len(Registered) :
                /\ MatchesPattern(Registered[k].pattern, path)
                /\ \A j \in 1..(k - 1) : ~MatchesPattern(Registered[j].pattern, path)
    IN  Registered[i].name

\* the middleware chain a route is registered with
Chain(route) ==
    CASE route = "/utxo" -> <<"parseEvaluatedKey", "validate", "syncIfNeeded", "handler">>
      [] route = "/aggs-utxo" -> <<"parseEvaluatedKey", "validate", "syncIfNeeded", "handler">>
      [] route = "/aggs-utxo/count" -> <<"validate", "syncIfNeeded", "handler">>
      [] route = "/snapshot" -> <<"parseEvaluatedKey", "validate", "handler">>
      [] OTHER -> <<"handler">>

\* where next() leads from a middleware of the chain
NextStage(route, stage) ==
    LET chain == Chain(route)
        i == CHOOSE j \in 1..Len(chain) : chain[j] = stage
    IN  IF i = Len(chain) THEN "done" ELSE chain[i + 1]

(***************************************************************************)
(* Route handlers (routers/asset.ts).  A handler's outcome: the storage    *)
(* queries it issued, the responses it sent, its calls of next.            *)
(***************************************************************************)
\* req.query.x && parseInt(req.query.x, 10)
AndParseInt(x) == IF IsSome(x) /\ Get(x) # 0 THEN Some(parseInt(Get(x))) ELSE x

\* (req.query.itemsPerPage && parseInt(req.query.itemsPerPage, 10)) || 15
ItemsPerPage(q) ==
    LET n == AndParseInt(q.itemsPerPage)
    IN  IF IsSome(n) /\ Get(n) # 0 THEN Get(n) ELSE DefaultItemsPerPage

\* the asset type handed on as the client sent it, not checked by H160
OptionalH160Unchecked(q) ==
    IF IsSome(q.assetType) /\ Get(q.assetType) # ""
    THEN [ok |-> TRUE, value |-> q.assetType]
    ELSE [ok |-> TRUE, value |-> None]

\* if (assetTypeString) { assetType = new H160(assetTypeString); }
OptionalH160(q) ==
    IF IsSome(q.assetType) /\ Get(q.assetType) # ""
    THEN LET h == H160(Get(q.assetType))
         IN  [ok |-> h.ok, value |-> IF h.ok THEN Some(h.value) ELSE None]
    ELSE [ok |-> TRUE, value |-> None]

Query(name, order) == [name |-> name, order |-> order]
Json(body) == [status |-> 200, body |-> body]
Thrown(qs, error) == [queries |-> qs, res |-> <<>>, next |-> <<error>>]

\* the parameters of getUTXO with onlyConfirmed not handed on
UTXOParamsNoOnlyConfirmed(q, assetType) ==
    [address |-> q.address,
     assetType |-> assetType,
     shardId |-> AndParseInt(q.shardId),
     itemsPerPage |-> ItemsPerPage(q) + 1,
     firstEvaluatedKey |-> q.firstEvaluatedKey,
     lastEvaluatedKey |-> q.lastEvaluatedKey,
     onlyConfirmed |-> None,
     confirmThreshold |-> AndParseInt(q.confirmThreshold)]

\* the parameters of getUTXO with firstEvaluatedKey not handed on
UTXOParamsNoFirstKey(q, assetType) ==
    [address |-> q.address,
     assetType |-> assetType,
     shardId |-> AndParseInt(q.shardId),
     itemsPerPage |-> ItemsPerPage(q) + 1,
     firstEvaluatedKey |-> JUndefined,
     lastEvaluatedKey |-> q.lastEvaluatedKey,
     onlyConfirmed |-> q.onlyConfirmed,
     confirmThreshold |-> AndParseInt(q.confirmThreshold)]

\* the parameters of getUTXO with the limit not raised by the extra row
UTXOParamsNoExtraRow(q, assetType) ==
    [address |-> q.address,
     assetType |-> assetType,
     shardId |-> AndParseInt(q.shardId),
     itemsPerPage |-> ItemsPerPage(q),
     firstEvaluatedKey |-> q.firstEvaluatedKey,
     lastEvaluatedKey |-> q.lastEvaluatedKey,
     onlyConfirmed |-> q.onlyConfirmed,
     confirmThreshold |-> AndParseInt(q.confirmThreshold)]

UTXOParams(q, assetType) ==
    [address |-> q.address,
     assetType |-> assetType,
     shardId |-> AndParseInt(q.shardId),
     itemsPerPage |-> ItemsPerPage(q) + 1,
     firstEvaluatedKey |-> q.firstEvaluatedKey,
     lastEvaluatedKey |-> q.lastEvaluatedKey,
     onlyConfirmed |-> q.onlyConfirmed,
     confirmThreshold |-> AndParseInt(q.confirmThreshold)]

\* the /utxo handler with the page size handed to createPaginationResult
\* raised by one as the limit of the query is
UTXOHandlerLimitAsPageSize(q, dbOk) ==
    LET assetType == OptionalH160(q) IN
    IF ~assetType.ok THEN Thrown(<<>>, InvalidH160)
    ELSE IF ~dbOk THEN Thrown(<<Query("getUTXO", "")>>, StorageError)
    ELSE [queries |-> <<Query("getUTXO", "")>>,
          res |-> <<Json([kind |-> "page",
                          page |-> createPaginationResult(
                              q, getUTXO(UTXOParams(q, assetType.value)),
                              [row \in utxos |-> createUTXOEvaluatedKey(row)],
                              ItemsPerPage(q) + 1)])>>,
          next |-> <<>>]

UTXOHandler(q, dbOk) ==
    LET assetType == OptionalH160(q) IN
    IF ~assetType.ok THEN Thrown(<<>>, InvalidH160)
    ELSE IF ~dbOk THEN Thrown(<<Query("getUTXO", "")>>, StorageError)
    ELSE [queries |-> <<Query("getUTXO", "")>>,
          res |-> <<Json([kind |-> "page",
                          page |-> createPaginationResult(
                              q, getUTXO(UTXOParams(q, assetType.value)),
                              [row \in utxos |-> createUTXOEvaluatedKey(row)],
                              ItemsPerPage(q))])>>,
          next |-> <<>>]

AggsOrder(q) == IF IsSome(q.address) /\ Get(q.address) # "" THEN "assetType" ELSE "address"

AggsUTXOParams(q, assetType) ==
    [order |-> AggsOrder(q),
     address |-> q.address,
     assetType |-> assetType,
     shardId |-> AndParseInt(q.shardId),
     itemsPerPage |-> ItemsPerPage(q) + 1,
     firstEvaluatedKey |-> q.firstEvaluatedKey,
     lastEvaluatedKey |-> q.lastEvaluatedKey,
     onlyConfirmed |-> q.onlyConfirmed,
     confirmThreshold |-> AndParseInt(q.confirmThreshold)]

\* the /aggs-utxo handler with the cursors encoded in the order "address"
\* whatever the order of the query
AggsUTXOHandlerCursorByAddress(q, dbOk) ==
    LET assetType == OptionalH160(q)
        order == AggsOrder(q)
        rows == getAggsUTXO(AggsUTXOParams(q, assetType.value))
        getEvaluatedKey == [row \in {rows[i] : i \in 1..Len(rows)} |->
                               createAggsUTXOEvaluatedKey(row, "address")]
    IN
    IF ~assetType.ok THEN Thrown(<<>>, InvalidH160)
    ELSE IF ~dbOk THEN Thrown(<<Query("getAggsUTXO", order)>>, StorageError)
    ELSE [queries |-> <<Query("getAggsUTXO", order)>>,
          res |-> <<Json([kind |-> "page",
                          page |-> createPaginationResult(
                              q, rows, getEvaluatedKey, ItemsPerPage(q))])>>,
          next |-> <<>>]

AggsUTXOHandler(q, dbOk) ==
    LET assetType == OptionalH160(q)
        order == AggsOrder(q)
        rows == getAggsUTXO(AggsUTXOParams(q, assetType.value))
        getEvaluatedKey == [row \in {rows[i] : i \in 1..Len(rows)} |->
                               createAggsUTXOEvaluatedKey(row, order)]
    IN
    IF ~assetType.ok THEN Thrown(<<>>, InvalidH160)
    ELSE IF ~dbOk THEN Thrown(<<Query("getAggsUTXO", order)>>, StorageError)
    ELSE [queries |-> <<Query("getAggsUTXO", order)>>,
          res |-> <<Json([kind |-> "page",
                          page |-> createPaginationResult(
                              q, rows, getEvaluatedKey, ItemsPerPage(q))])>>,
          next |-> <<>>]

\* the parameters of getCountOfAggsUTXO with shardId not handed on
CountParamsNoShardId(q, assetType) ==
    [address |-> q.address,
     assetType |-> assetType,
     shardId |-> None,
     onlyConfirmed |-> q.onlyConfirmed,
     confirmThreshold |-> AndParseInt(q.confirmThreshold)]

CountParams(q, assetType) ==
    [address |-> q.address,
     assetType |-> assetType,
     shardId |-> AndParseInt(q.shardId),
     onlyConfirmed |-> q.onlyConfirmed,
     confirmThreshold |-> AndParseInt(q.confirmThreshold)]

AggsUTXOCountHandler(q, dbOk) ==
    LET assetType == OptionalH160(q) IN
    IF ~assetType.ok THEN Thrown(<<>>, InvalidH160)
    ELSE IF ~dbOk THEN Thrown(<<Query("getCountOfAggsUTXO", "")>>, StorageError)
    ELSE [queries |-> <<Query("getCountOfAggsUTXO", "")>>,
          res |-> <<Json([kind |-> "count",
                          count |-> getCountOfAggsUTXO(CountParams(q, assetType.value))])>>,
          next |-> <<>>]

\* the parameters of getSnapshot with the block's timestamp taken for its number
SnapshotParamsByTimestamp(q, assetType, block) ==
    [assetType |-> assetType,
     blockNumber |-> block.timestamp,
     lastEvaluatedKey |-> q.lastEvaluatedKey]

SnapshotParams(q, assetType, block) ==
    [assetType |-> assetType,
     blockNumber |-> block.number,
     lastEvaluatedKey |-> q.lastEvaluatedKey]

SnapshotBody(block, snapshot) ==
    [kind |-> "snapshot",
     blockHash |-> block.hash,
     blockNumber |-> block.number,
     page |-> snapshot]

TypeError == <<"Cannot", "read", "property", "get", "of", "null">>

\* the handler with the test of the missing block left out: block.get throws
SnapshotReplyNoNullCheck(q, assetType, block) ==
    IF ~IsSome(block)
    THEN Thrown(<<Query("getByTime", ""), Query("getSnapshot", "")>>, TypeError)
    ELSE [queries |-> <<Query("getByTime", ""), Query("getSnapshot", "")>>,
          res |-> <<Json(SnapshotBody(Get(block),
                      getSnapshot(SnapshotParams(q, assetType, Get(block)))))>>,
          next |-> <<>>]

\* the handler once the block of the snapshot time has been looked up
SnapshotReply(q, assetType, block) ==
    IF ~IsSome(block)
    THEN [queries |-> <<Query("getByTime", "")>>,
          res |-> <<Json([kind |-> "null"])>>,
          next |-> <<>>]
    ELSE [queries |-> <<Query("getByTime", ""), Query("getSnapshot", "")>>,
          res |-> <<Json(SnapshotBody(Get(block),
                      getSnapshot(SnapshotParams(q, assetType, Get(block)))))>>,
          next |-> <<>>]

\* the handler with the test of the date left out
SnapshotHandlerNoDateCheck(q, dbOk) ==
    LET assetType == IF IsSome(q.assetType) THEN H160(Get(q.assetType))
                     ELSE [ok |-> FALSE, value |-> ""]
        snapshotTime == moment(Get(q.date))
    IN
    IF ~assetType.ok THEN Thrown(<<>>, InvalidH160)
    ELSE IF ~dbOk THEN Thrown(<<Query("getByTime", "")>>, StorageError)
    ELSE SnapshotReply(q, assetType.value, getByTime(snapshotTime.unix))

SnapshotHandler(q, dbOk) ==
    LET assetType == IF IsSome(q.assetType) THEN H160(Get(q.assetType))
                     ELSE [ok |-> FALSE, value |-> ""]
        snapshotTime == moment(Get(q.date))
    IN
    IF ~assetType.ok THEN Thrown(<<>>, InvalidH160)
    ELSE IF ~snapshotTime.isValid THEN Thrown(<<>>, InvalidDateParam)
    ELSE IF ~dbOk THEN Thrown(<<Query("getByTime", "")>>, StorageError)
    ELSE SnapshotReply(q, assetType.value, getByTime(snapshotTime.unix))

(***************************************************************************)
(* Block routes (routers/block.ts).                                        *)
(***************************************************************************)
NotImplemented == <<"Not", "implemented">>

\* new H256(text): throws unless the text is a well-formed block hash
H256(text) ==
    IF Len(text) = 2 /\ text[1] = "h" /\ text[2] \in DigitSet
    THEN [ok |-> TRUE, value |-> [h |-> DigitValue(text[2])]]
    ELSE [ok |-> FALSE, value |-> [h |-> 0]]

\* isNaN(text): the text does not convert to a number
isNaN(text) == ~IsDigits(text)

getLatestBlock == IF bestBlockNumber < 0 THEN None ELSE Some(Block(bestBlockNumber))
getByHash(hash) == IF hash.h \in 0..bestBlockNumber THEN Some(Block(hash.h)) ELSE None
getByNumber(n) == IF n \in 0..bestBlockNumber THEN Some(Block(n)) ELSE None
getBlocks == [i \in 1..(bestBlockNumber + 1) |-> Block(i - 1)]

\* latestBlockInst ? latestBlockInst.get({ plain: true }) : null
BlockBody(block) ==
    IF IsSome(block) THEN [kind |-> "block", block |-> Get(block)] ELSE [kind |-> "null"]

BlockLatestHandler(dbOk) ==
    IF ~dbOk THEN Thrown(<<Query("getLatestBlock", "")>>, StorageError)
    ELSE [queries |-> <<Query("getLatestBlock", "")>>,
          res |-> <<Json(BlockBody(getLatestBlock))>>,
          next |-> <<>>]

BlockByHashOrNumberHandler(hashOrNumber, dbOk) ==
    LET hashValue == H256(hashOrNumber) IN
    IF hashValue.ok
    THEN IF ~dbOk THEN Thrown(<<Query("getByHash", "")>>, StorageError)
         ELSE [queries |-> <<Query("getByHash", "")>>,
               res |-> <<Json(BlockBody(getByHash(hashValue.value)))>>,
               next |-> <<>>]
    ELSE IF ~isNaN(hashOrNumber)
    THEN IF ~dbOk THEN Thrown(<<Query("getByNumber", "")>>, StorageError)
         ELSE [queries |-> <<Query("getByNumber", "")>>,
               res |-> <<Json(BlockBody(getByNumber(DigitsToNumber(hashOrNumber))))>>,
               next |-> <<>>]
    ELSE [queries |-> <<>>, res |-> <<Json(BlockBody(None))>>, next |-> <<>>]

BlocksHandler(dbOk) ==
    IF ~dbOk THEN Thrown(<<Query("getBlocks", "")>>, StorageError)
    ELSE [queries |-> <<Query("getBlocks", "")>>,
          res |-> <<Json([kind |-> "blocks", blocks |-> getBlocks])>>,
          next |-> <<>>]

BlockCountHandler == Thrown(<<>>, NotImplemented)

BlockHandler(route, path, dbOk) ==
    CASE route = "/block/latest" -> BlockLatestHandler(dbOk)
      [] route = "/block/:hashOrNumber" -> BlockByHashOrNumberHandler(path[2], dbOk)
      [] route = "/block" -> BlocksHandler(dbOk)
      [] route = "/block/count" -> BlockCountHandler

BlockRoutes == {"/block/latest", "/block/:hashOrNumber", "/block", "/block/count"}

Handler(route, q, dbOk) ==
    CASE route = "/utxo" -> UTXOHandler(q, dbOk)
      [] route = "/aggs-utxo" -> AggsUTXOHandler(q, dbOk)
      [] route = "/aggs-utxo/count" -> AggsUTXOCountHandler(q, dbOk)
      [] route = "/snapshot" -> SnapshotHandler(q, dbOk)

(***************************************************************************)
(* The requests a client sends.                                            *)
(***************************************************************************)
EmptyQuery ==
    [address |-> None, assetType |-> None, shardId |-> None, itemsPerPage |-> None,
     onlyConfirmed |-> None, confirmThreshold |-> None, sync |-> None,
     firstEvaluatedKey |-> JUndefined, lastEvaluatedKey |-> JUndefined, date |-> None]

\* onlyConfirmed with the confirmThreshold it comes with
Confirmations ==
    {<<None, None>>, <<None, Some(1)>>, <<Some(FALSE), Some(1)>>}
        \cup {<<Some(TRUE), Some(t)>> : t \in 0..MaxThreshold}

\* queries that filter and page, without a cursor
FilterQueries ==
    {[EmptyQuery EXCEPT !.address = a, !.assetType = t, !.shardId = s,
                        !.itemsPerPage = n, !.onlyConfirmed = c[1],
                        !.confirmThreshold = c[2]] :
        a \in {None} \cup {Some(x) : x \in Addresses},
        t \in {None} \cup {Some(x) : x \in AssetTypes},
        s \in {None, Some(0), Some(1)},
        n \in {None} \cup {Some(i) : i \in 1..MaxItemsPerPage}, c \in Confirmations}

\* the cursor texts a client may send with a /utxo or /snapshot request
UTXOCursorTexts ==
    {JUndefined, JText(<<>>), JText(<<"[", "1">>), JText(<<"0">>), JText(<<"null">>),
     JText(<<"[", "]">>), JText(StringifyNumbers(<<1, 0, 0>>))}
AggsCursorTexts ==
    {JUndefined, JText(<<"[", "1">>), JText(<<"0">>),
     JText(StringifyStrings(<<"a1", "t2">>))}

CursorQueries(texts) ==
    {[EmptyQuery EXCEPT !.firstEvaluatedKey = f, !.lastEvaluatedKey = l] :
        f \in texts, l \in texts}

SyncQueries ==
    {[EmptyQuery EXCEPT !.sync = s, !.assetType = t] :
        s \in {Some(TRUE), Some(FALSE)}, t \in {None, Some(BadAssetType)}}

SnapshotDates ==
    {IsoDate(5), IsoDate(10)} \cup {IsoDate(10 * n + 15) : n \in 0..MaxHeight}
        \cup {<<"yesterday">>, IsoDate(61)}

SnapshotQueries ==
    {[EmptyQuery EXCEPT !.assetType = t, !.date = Some(d), !.lastEvaluatedKey = l] :
        t \in {Some("t1"), Some("t2"), Some(BadAssetType)}, d \in SnapshotDates,
        l \in {JUndefined, JText(StringifyNumbers(<<0, 1, 0>>))}}

\* the block paths a client asks for: the latest block, the count, the list,
\* a block by its number and a block by its hash
BlockPaths ==
    {BlockLatestPath, BlockCountPath, BlockPath}
        \cup {<<<<"block">>, NumberToString(n)>> : n \in 0..(MaxHeight + 1)}
        \cup {<<<<"block">>, <<"h", DigitChar[n + 1]>>>> : n \in 0..(MaxHeight + 1)}

Requests ==
    {[path |-> UTXOPath, query |-> q] :
        q \in FilterQueries \cup CursorQueries(UTXOCursorTexts) \cup SyncQueries}
    \cup {[path |-> AggsUTXOPath, query |-> q] :
        q \in FilterQueries \cup CursorQueries(AggsCursorTexts) \cup SyncQueries}
    \cup {[path |-> AggsUTXOCountPath, query |-> q] :
        q \in {f \in FilterQueries : f.itemsPerPage = None} \cup SyncQueries}
    \cup {[path |-> SnapshotPath, query |-> q] :
        q \in SnapshotQueries \cup CursorQueries(UTXOCursorTexts)}
    \cup {[path |-> b, query |-> EmptyQuery] : b \in BlockPaths}

\* how worker.sync() may settle: resolved, or rejected with an error message
SyncOutcomes ==
    {NoError,
     <<"connect", "ECONNREFUSED", "127.0.0.1:8080">>,
     <<"read", "ECONNRESET">>,
     <<"Invalid", "block", "received">>}

(***************************************************************************)
(* Actions.                                                                *)
(***************************************************************************)
Init ==
    /\ bestBlockNumber \in -1..MaxHeight
    /\ utxos = UTXOsUpTo(bestBlockNumber)
    /\ req = [route |-> "", path |-> <<>>, query |-> EmptyQuery, sent |-> EmptyQuery]
    /\ pc = "idle"
    /\ res = <<>>
    /\ nextCalls = <<>>
    /\ queries = <<>>
    /\ syncCalls = 0
    /\ syncOutcome = None
    /\ walk = [mode |-> "none", pages |-> <<>>, forward |-> <<>>]

\* express hands a request to the first middleware of the route that serves
\* its path
Dispatch(r) ==
    /\ req' = [route |-> RouteOf(r.path), path |-> r.path, query |-> r.query,
               sent |-> r.query]
    /\ pc' = Chain(RouteOf(r.path))[1]
    /\ res' = <<>>
    /\ nextCalls' = <<>>
    /\ queries' = <<>>
    /\ syncCalls' = 0
    /\ syncOutcome' = None
    /\ UNCHANGED <<utxos, bestBlockNumber>>

HasCursor(q) == q.firstEvaluatedKey.t # "undefined" \/ q.lastEvaluatedKey.t # "undefined"

NewRequest ==
    /\ pc = "idle"
    /\ \E r \in Requests :
          /\ Dispatch(r)
          /\ walk' = [mode |-> IF RouteOf(r.path) \in {"/utxo", "/aggs-utxo"} /\ ~HasCursor(r.query)
                               THEN "forward" ELSE "none",
                      pages |-> <<>>, forward |-> <<>>]

\* the exchange is over; the server keeps nothing of it
Close ==
    /\ pc = "done"
    /\ pc' = "idle"
    /\ req' = [route |-> "", path |-> <<>>, query |-> EmptyQuery, sent |-> EmptyQuery]
    /\ res' = <<>>
    /\ nextCalls' = <<>>
    /\ queries' = <<>>
    /\ syncCalls' = 0
    /\ syncOutcome' = None
    /\ walk' = [mode |-> "none", pages |-> <<>>, forward |-> <<>>]
    /\ UNCHANGED <<utxos, bestBlockNumber>>

\* next(error): express leaves the chain for its error handler; next(): the
\* following middleware of the chain runs
Continue(stage, error) ==
    /\ nextCalls' = Append(nextCalls, error)
    /\ pc' = IF error = NoError THEN NextStage(req.route, stage) ELSE "done"

ParseEvaluatedKey ==
    /\ pc = "parseEvaluatedKey"
    /\ LET out == parseEvaluatedKey(req.query)
       IN  /\ req' = [req EXCEPT !.query = out.query]
           /\ Continue("parseEvaluatedKey", out.next)
    /\ UNCHANGED <<utxos, bestBlockNumber, res, queries, syncCalls, syncOutcome, walk>>

Validate ==
    /\ pc = "validate"
    /\ Continue("validate", validate(req.route, req.query))
    /\ UNCHANGED <<utxos, bestBlockNumber, req, res, queries, syncCalls, syncOutcome, walk>>

\* syncIfNeeded up to its await: without sync === true it calls next() at once
SyncIfNeeded ==
    /\ pc = "syncIfNeeded"
    /\ IF req.query.sync = Some(TRUE)
       THEN /\ syncCalls' = syncCalls + 1
            /\ pc' = "awaitSync"
            /\ UNCHANGED nextCalls
       ELSE /\ Continue("syncIfNeeded", NoError)
            /\ UNCHANGED syncCalls
    /\ UNCHANGED <<utxos, bestBlockNumber, req, res, queries, syncOutcome, walk>>

\* worker.sync() settles and syncIfNeeded runs to its end
SyncSettles ==
    /\ pc = "awaitSync"
    /\ \E outcome \in SyncOutcomes :
          LET out == syncIfNeeded(outcome)
          IN  /\ syncOutcome' = Some(outcome)
              /\ res' = res \o out.res
              /\ nextCalls' = nextCalls \o out.next
              /\ pc' = IF \E i \in 1..Len(out.next) : out.next[i] = NoError
                       THEN NextStage(req.route, "syncIfNeeded")
                       ELSE "done"
    /\ UNCHANGED <<utxos, bestBlockNumber, req, queries, syncCalls, walk>>

\* the route handler runs to its end
Handle ==
    /\ pc = "handler"
    /\ \E dbOk \in BOOLEAN :
          LET out == IF req.route \in BlockRoutes
                     THEN BlockHandler(req.route, req.path, dbOk)
                     ELSE Handler(req.route, req.query, dbOk)
          IN  /\ queries' = queries \o out.queries
              /\ res' = res \o out.res
              /\ nextCalls' = nextCalls \o out.next
    /\ pc' = "done"
    /\ UNCHANGED <<utxos, bestBlockNumber, req, syncCalls, syncOutcome, walk>>

(***************************************************************************)
(* The paging client: it repeats the request with the cursor the last page *)
(* returned, keeping every filter, and collects the pages.                 *)
(***************************************************************************)
\* the request ended with exactly one response, a page, and no error
GotPage ==
    /\ pc = "done"
    /\ Len(res) = 1
    /\ res[1].body.kind = "page"
    /\ \A i \in 1..Len(nextCalls) : nextCalls[i] = NoError

ThePage == res[1].body.page

\* no walk runs longer than the rows of the universe allow
MaxPages == MaxRows + 2

ClientNextPage ==
    /\ GotPage
    /\ walk.mode = "forward"
    /\ ThePage.hasNextPage
    /\ Len(walk.pages) < MaxPages
    /\ Dispatch([path |-> req.path,
                 query |-> [req.sent EXCEPT
                               !.firstEvaluatedKey = JUndefined,
                               !.lastEvaluatedKey = JText(Get(ThePage.lastEvaluatedKey))]])
    /\ walk' = [walk EXCEPT !.pages = Append(@, ThePage.data)]

ClientPreviousPage ==
    /\ GotPage
    /\ ThePage.hasPreviousPage
    /\ Len(walk.pages) < MaxPages
    /\ \/ /\ walk.mode = "forward"
          /\ ~ThePage.hasNextPage
          /\ walk' = [mode |-> "backward", pages |-> <<>>,
                      forward |-> Append(walk.pages, ThePage.data)]
       \/ /\ walk.mode = "backward"
          /\ walk' = [walk EXCEPT !.pages = Append(@, ThePage.data)]
    /\ Dispatch([path |-> req.path,
                 query |-> [req.sent EXCEPT
                               !.lastEvaluatedKey = JUndefined,
                               !.firstEvaluatedKey = JText(Get(ThePage.firstEvaluatedKey))]])

\* after the last page of the aggregate list, the count with the same filters
ClientCount ==
    /\ GotPage
    /\ walk.mode = "forward"
    /\ ~ThePage.hasNextPage
    /\ req.route = "/aggs-utxo"
    /\ walk' = [mode |-> "count", pages |-> <<>>,
                forward |-> Append(walk.pages, ThePage.data)]
    /\ Dispatch([path |-> AggsUTXOCountPath,
                 query |-> [req.sent EXCEPT !.lastEvaluatedKey = JUndefined,
                                             !.firstEvaluatedKey = JUndefined,
                                             !.itemsPerPage = None]])

Next ==
    \/ NewRequest
    \/ Close
    \/ ParseEvaluatedKey
    \/ Validate
    \/ SyncIfNeeded
    \/ SyncSettles
    \/ Handle
    \/ ClientNextPage
    \/ ClientPreviousPage
    \/ ClientCount

Spec == Init /\ [][Next]_vars

\* a request that asks for sync, or says it does not want it
NewSyncRequest ==
    /\ pc = "idle"
    /\ \E r \in {x \in Requests : IsSome(x.query.sync)} : Dispatch(r)
    /\ walk' = [mode |-> "none", pages |-> <<>>, forward |-> <<>>]

SyncNext ==
    \/ NewSyncRequest
    \/ Close
    \/ ParseEvaluatedKey
    \/ Validate
    \/ SyncIfNeeded
    \/ SyncSettles
    \/ Handle

\* the server runs every middleware it has entered to its end or to its next
\* await; nothing makes worker.sync() settle
FairSpec ==
    /\ Init
    /\ [][SyncNext]_vars
    /\ WF_vars(ParseEvaluatedKey)
    /\ WF_vars(Validate)
    /\ WF_vars(SyncIfNeeded)
    /\ WF_vars(Handle)

(***************************************************************************)
(* Properties.                                                             *)
(***************************************************************************)
\* the text of a serialized sort-key tuple: it parses, and to an array
IsParseableCursor(c) ==
    c.t = "text" /\ JSONparse(c.text).ok /\ JSONparse(c.text).v.t = "array"

ThroughParseEvaluatedKey == req.route \in {"/utxo", "/aggs-utxo", "/snapshot"}

BothCursorsSent ==
    /\ ThroughParseEvaluatedKey
    /\ IsParseableCursor(req.sent.firstEvaluatedKey)
    /\ IsParseableCursor(req.sent.lastEvaluatedKey)

\* C1: a request through parseEvaluatedKey that supplies both firstEvaluatedKey
\* and lastEvaluatedKey, each a parseable cursor, goes no further than
\* parseEvaluatedKey: it ends with the conflict error handed to next, no
\* later middleware and no handler runs, nothing is sent and no storage query
\* is issued.
C1_ConflictingCursorsFail ==
    BothCursorsSent =>
        /\ pc \in {"parseEvaluatedKey", "done"}
        /\ queries = <<>>
        /\ res = <<>>
        /\ pc = "done" => nextCalls = <<ConflictError>>

C1_Witness ==
    /\ BothCursorsSent
    /\ pc = "done"
    /\ nextCalls = <<ConflictError>>
    /\ req.sent.firstEvaluatedKey # req.sent.lastEvaluatedKey

\* the middlewares that run before syncIfNeeded in the chain of the route
BeforeSync(route) ==
    (CHOOSE j \in 1..Len(Chain(route)) : Chain(route)[j] = "syncIfNeeded") - 1

SyncUnreachable ==
    /\ req.query.sync = Some(TRUE)
    /\ IsSome(syncOutcome)
    /\ IsConnectionError(Get(syncOutcome))

\* C2: when sync === true and worker.sync() fails with ECONNRESET or
\* ECONNREFUSED in its message, the request ends with the single response
\* 503: syncIfNeeded does not call next, the handler does not run, no storage
\* query is issued and worker.sync() was called once.
C2_Unavailable ==
    SyncUnreachable =>
        /\ pc = "done"
        /\ res = <<[status |-> 503, body |-> [kind |-> "empty"]]>>
        /\ queries = <<>>
        /\ Len(nextCalls) = BeforeSync(req.route)
        /\ \A i \in 1..Len(nextCalls) : nextCalls[i] = NoError
        /\ syncCalls = 1

C2_Witness ==
    /\ SyncUnreachable
    /\ pc = "done"
    /\ res = <<[status |-> 503, body |-> [kind |-> "empty"]]>>
    /\ req.route = "/utxo"

RECURSIVE Flatten(_)
Flatten(pages) == IF Len(pages) = 0 THEN <<>> ELSE pages[1] \o Flatten(Tail(pages))

\* what a query asks for, read off the query the client sent
Matches(row, q) ==
    /\ IsSome(q.address) => row.address = Get(q.address)
    /\ IsSome(q.assetType) => row.assetType = Get(q.assetType)
    /\ IsSome(q.shardId) => row.shardId = Get(q.shardId)

Confirmed(row, q) ==
    q.onlyConfirmed = Some(TRUE) => row.blockNumber <= bestBlockNumber - Get(q.confirmThreshold)

EligibleUTXOs(q) == {r \in utxos : Matches(r, q) /\ Confirmed(r, q)}

\* a walk forward through /utxo, from the request without a cursor to the page
\* at hand
ForwardUTXOWalk == GotPage /\ walk.mode = "forward" /\ req.route = "/utxo"

\* C3: paging /utxo forward from no cursor with the returned lastEvaluatedKey,
\* the pages so far are a prefix of the eligible rows in ascending sort-key
\* order; a page that has a next page is not empty and leaves rows to come, so
\* the walk ends; at hasNextPage = false the pages are all the eligible rows,
\* each once, in order.
C3_ForwardPagingComplete ==
    ForwardUTXOWalk =>
        LET all == Ascending(EligibleUTXOs(req.sent), UTXOKeys(EligibleUTXOs(req.sent)))
            got == Flatten(Append(walk.pages, ThePage.data))
        IN  /\ Len(got) <= Len(all)
            /\ got = SubSeq(all, 1, Len(got))
            /\ ThePage.hasNextPage => Len(ThePage.data) > 0 /\ Len(got) < Len(all)
            /\ ~ThePage.hasNextPage => got = all

C3_Witness ==
    /\ ForwardUTXOWalk
    /\ ~ThePage.hasNextPage
    /\ Len(walk.pages) >= 2
    /\ IsSome(req.sent.address)
    /\ Flatten(Append(walk.pages, ThePage.data))
          = Ascending(EligibleUTXOs(req.sent), UTXOKeys(EligibleUTXOs(req.sent)))
    /\ \E i \in 1..Len(ThePage.data) : ThePage.data[i].id < walk.pages[1][1].id

\* the aggregate rows a query asks for: one for each (address, assetType) that
\* an eligible output has
EligibleAggs(q) ==
    {[address |-> a, assetType |-> t,
      count |-> Cardinality({r \in EligibleUTXOs(q) : r.address = a /\ r.assetType = t})] :
        <<a, t>> \in {g \in Addresses \X AssetTypes :
                        \E r \in EligibleUTXOs(q) : r.address = g[1] /\ r.assetType = g[2]}}

\* address pinned: ordered by asset type; else by address
OrderAsked(q) == IF IsSome(q.address) THEN "assetType" ELSE "address"

\* the whole result of a paged route for a query, in ascending sort-key order
AllRows(route, q) ==
    IF route = "/utxo" THEN Ascending(EligibleUTXOs(q), UTXOKeys(EligibleUTXOs(q)))
    ELSE Ascending(EligibleAggs(q), AggsKeys(EligibleAggs(q), OrderAsked(q)))

\* the row sorts strictly before the decoded cursor
BeforeCursor(route, q, row, cursor) ==
    IF route = "/utxo" THEN NumbersLess(UTXOKey(row), KeyOf(cursor))
    ELSE StringsLess(AggsKey(row, OrderAsked(q)), KeyOf(cursor))

PageSizeAsked(q) == IF IsSome(q.itemsPerPage) THEN Get(q.itemsPerPage) ELSE DefaultItemsPerPage

\* a walk backward from the last page of a finished forward walk
BackwardWalk == GotPage /\ walk.mode = "backward"

\* C4: paging backward from the last page with the returned firstEvaluatedKey,
\* the k-th backward page is the k-th forward page before the last one; it is
\* the itemsPerPage nearest rows strictly before the cursor, in ascending
\* order; it has a previous page exactly while a forward page remains.
C4_BackwardPagingMirrorsForward ==
    BackwardWalk =>
        LET n == Len(walk.forward)
            k == Len(walk.pages) + 1
            Pred(row) == BeforeCursor(req.route, req.sent, row, req.query.firstEvaluatedKey)
            preds == SelectSeq(AllRows(req.route, req.sent), Pred)
            size == IF PageSizeAsked(req.sent) < Len(preds)
                    THEN PageSizeAsked(req.sent) ELSE Len(preds)
        IN  /\ k < n
            /\ ThePage.data = walk.forward[n - k]
            /\ ThePage.data = SubSeq(preds, Len(preds) - size + 1, Len(preds))
            /\ ThePage.hasPreviousPage <=> k < n - 1

C4_Witness ==
    /\ BackwardWalk
    /\ req.route = "/utxo"
    /\ Len(walk.pages) >= 1
    /\ ~ThePage.hasPreviousPage
    /\ Len(ThePage.data) = 2
    /\ Len(walk.forward[Len(walk.forward)]) = 1
    /\ ThePage.data = walk.forward[1]

\* the rows of the pages of a walk
RowsOf(pages) == {Flatten(pages)[i] : i \in 1..Len(Flatten(pages))}

FinishedUTXOWalk == ForwardUTXOWalk /\ ~ThePage.hasNextPage

\* C5: with head height H = bestBlockNumber and confirmThreshold T, a /utxo
\* query with onlyConfirmed = true returns an output if and only if it matches
\* the filters and its block number is at most H - T; without onlyConfirmed =
\* true it returns every output that matches the filters, whatever
\* confirmThreshold is.
C5_ConfirmationCeiling ==
    FinishedUTXOWalk =>
        LET q == req.sent
            returned == RowsOf(Append(walk.pages, ThePage.data))
        IN  \A r \in utxos :
                r \in returned <=>
                    /\ Matches(r, q)
                    /\ q.onlyConfirmed = Some(TRUE) =>
                          r.blockNumber <= bestBlockNumber - Get(q.confirmThreshold)

C5_Witness ==
    /\ FinishedUTXOWalk
    /\ req.sent.onlyConfirmed = Some(TRUE)
    /\ req.sent.confirmThreshold = Some(1)
    /\ bestBlockNumber = MaxHeight
    /\ LET returned == RowsOf(Append(walk.pages, ThePage.data))
       IN  /\ \E r \in returned : r.blockNumber = MaxHeight - 1
           /\ \E r \in utxos : /\ Matches(r, req.sent)
                               /\ r.blockNumber = MaxHeight
                               /\ r \notin returned

\* the count request that follows the last page of a walk through /aggs-utxo
CountAnswered ==
    /\ pc = "done"
    /\ walk.mode = "count"
    /\ Len(res) = 1
    /\ res[1].body.kind = "count"
    /\ \A i \in 1..Len(nextCalls) : nextCalls[i] = NoError

\* C6: for every combination of the filters, the integer /aggs-utxo/count
\* returns is the number of rows of all the pages of /aggs-utxo paged forward
\* to the end with the same filters, with the address pinned or not.
C6_CountEqualsPagedTotal ==
    CountAnswered => res[1].body.count = Len(Flatten(walk.forward))

C6_Witness ==
    /\ CountAnswered
    /\ IsSome(req.sent.address)
    /\ IsSome(req.sent.shardId)
    /\ Len(walk.forward) >= 2
    /\ res[1].body.count = Len(Flatten(walk.forward))
    /\ res[1].body.count < Cardinality(utxos)

\* the /snapshot handler has run to its end
SnapshotHandled ==
    /\ req.route = "/snapshot"
    /\ pc = "done"
    /\ Len(nextCalls) >= 2
    /\ nextCalls[1] = NoError
    /\ nextCalls[2] = NoError

WellFormedAssetType == IsSome(req.sent.assetType) /\ H160(Get(req.sent.assetType)).ok
SnapshotTime == moment(Get(req.sent.date))
StorageWorked == \A i \in 1..Len(nextCalls) : nextCalls[i] # StorageError

\* C7: a snapshot request with a valid assetType and a valid date that no
\* block's timestamp is at or before is answered with null alone: no error
\* goes to next, no page envelope is sent and getSnapshot is not issued.
C7_SnapshotBeforeGenesisIsNull ==
    ( /\ SnapshotHandled
      /\ WellFormedAssetType
      /\ SnapshotTime.isValid
      /\ \A n \in 0..bestBlockNumber : Block(n).timestamp > SnapshotTime.unix
      /\ StorageWorked )
    => /\ res = <<[status |-> 200, body |-> [kind |-> "null"]]>>
       /\ nextCalls = <<NoError, NoError>>
       /\ queries = <<Query("getByTime", "")>>

C7_Witness ==
    /\ SnapshotHandled
    /\ WellFormedAssetType
    /\ SnapshotTime.isValid
    /\ bestBlockNumber >= 1
    /\ SnapshotTime.unix < Block(0).timestamp
    /\ res = <<[status |-> 200, body |-> [kind |-> "null"]]>>

SnapshotAnswered ==
    /\ req.route = "/snapshot"
    /\ pc = "done"
    /\ Len(res) = 1
    /\ res[1].body.kind = "snapshot"

\* C8: when a snapshot request resolves to the block B, the latest with
\* timestamp <= the snapshot time, blockNumber and blockHash of the response
\* are those of B and every output of the returned page has the requested
\* assetType and a block number <= B.number.
C8_SnapshotAsOfResolvedBlock ==
    SnapshotAnswered =>
        LET body == res[1].body
            time == SnapshotTime.unix
        IN  /\ body.blockNumber \in 0..bestBlockNumber
            /\ Block(body.blockNumber).timestamp <= time
            /\ \A n \in 0..bestBlockNumber :
                  Block(n).timestamp <= time => n <= body.blockNumber
            /\ body.blockHash = Block(body.blockNumber).hash
            /\ \A i \in 1..Len(body.page.data) :
                  /\ body.page.data[i].assetType = Get(req.sent.assetType)
                  /\ body.page.data[i].blockNumber <= body.blockNumber

C8_Witness ==
    /\ SnapshotAnswered
    /\ res[1].body.blockNumber < bestBlockNumber
    /\ Len(res[1].body.page.data) >= 1
    /\ \E r \in utxos : /\ r.assetType = Get(req.sent.assetType)
                        /\ r.blockNumber > res[1].body.blockNumber

\* C9: a request with sync === true that waits for worker.sync() eventually
\* leaves syncIfNeeded: a response is sent or the next handler runs.
C9_SyncRequestCompletes ==
    (pc = "awaitSync" /\ req.query.sync = Some(TRUE)) ~> (pc \in {"handler", "done"})

\* C10: a snapshot request with a well-formed assetType whose date does not
\* parse ends with InvalidDateParam handed to next: getByTime and getSnapshot
\* are not issued and the handler sends nothing.
C10_InvalidDateFails ==
    (SnapshotHandled /\ WellFormedAssetType /\ ~SnapshotTime.isValid)
    => /\ nextCalls = <<NoError, NoError, InvalidDateParam>>
       /\ queries = <<>>
       /\ res = <<>>

C10_Witness ==
    /\ SnapshotHandled
    /\ WellFormedAssetType
    /\ req.sent.date = Some(<<"yesterday">>)
    /\ nextCalls = <<NoError, NoError, InvalidDateParam>>
    /\ bestBlockNumber >= 0

\* the text of a cursor that JSON.parse does not accept
IsMalformedCursor(c) == c.t = "text" /\ ~JSONparse(c.text).ok

\* the claim as it stands, the empty text counted among the keys that are not
\* valid serialized structure: next is called once and with an error, the
\* malformed value is not replaced, no handler and no storage query
C11_AnyMalformedCursorFails ==
    (/\ ThroughParseEvaluatedKey
     /\ IsMalformedCursor(req.sent.firstEvaluatedKey)
           \/ IsMalformedCursor(req.sent.lastEvaluatedKey)
     /\ pc # "parseEvaluatedKey") =>
        /\ pc = "done"
        /\ Len(nextCalls) = 1
        /\ nextCalls[1] # NoError
        /\ IsMalformedCursor(req.sent.firstEvaluatedKey)
              => req.query.firstEvaluatedKey = req.sent.firstEvaluatedKey
        /\ IsMalformedCursor(req.sent.lastEvaluatedKey)
              => req.query.lastEvaluatedKey = req.sent.lastEvaluatedKey
        /\ queries = <<>>
        /\ res = <<>>

\* a key is supplied when its text is not empty (lines 29 and 34 test it)
MalformedCursorSent ==
    /\ ThroughParseEvaluatedKey
    /\ \/ Truthy(req.sent.firstEvaluatedKey) /\ IsMalformedCursor(req.sent.firstEvaluatedKey)
       \/ Truthy(req.sent.lastEvaluatedKey) /\ IsMalformedCursor(req.sent.lastEvaluatedKey)

\* C11: a request through parseEvaluatedKey with a firstEvaluatedKey or
\* lastEvaluatedKey that is not empty and not valid serialized structure goes no further
\* than parseEvaluatedKey: next is called once, with the error of the
\* decoding, the malformed value is still the text the client sent, and no
\* handler runs and no storage query is issued.
C11_MalformedCursorFails ==
    (MalformedCursorSent /\ pc # "parseEvaluatedKey") =>
        /\ pc = "done"
        /\ nextCalls = <<SyntaxError>>
        /\ IsMalformedCursor(req.sent.firstEvaluatedKey)
              => req.query.firstEvaluatedKey = req.sent.firstEvaluatedKey
        /\ IsMalformedCursor(req.sent.lastEvaluatedKey)
              => req.query.lastEvaluatedKey = req.sent.lastEvaluatedKey
        /\ queries = <<>>
        /\ res = <<>>

\* a well-formed firstEvaluatedKey has been decoded when the malformed
\* lastEvaluatedKey stops the request
C11_Witness ==
    /\ MalformedCursorSent
    /\ pc = "done"
    /\ nextCalls = <<SyntaxError>>
    /\ req.sent.lastEvaluatedKey = JText(<<"[", "1">>)
    /\ req.query.firstEvaluatedKey.t = "array"

\* the calls next() of a request, those without an error
RECURSIVE PlainNexts(_)
PlainNexts(calls) ==
    IF Len(calls) = 0 THEN 0
    ELSE (IF calls[1] = NoError THEN 1 ELSE 0) + PlainNexts(Tail(calls))

\* the route handler has run: every middleware before it in the chain has
\* called next()
HandlerRan ==
    /\ req.route # ""
    /\ pc = "done"
    /\ PlainNexts(nextCalls) >= Len(Chain(req.route)) - 1

UTXORoutes == {"/utxo", "/aggs-utxo", "/aggs-utxo/count"}

AssetTypeMalformed == IsSome(req.sent.assetType) /\ ~H160(Get(req.sent.assetType)).ok

\* C12: in the four handlers a supplied assetType that is not a well-formed
\* hash ends the request with the error of H160 handed to next, once and as
\* the last call: no storage query is issued and nothing is sent.  On the
\* three UTXO routes an absent assetType raises no error, and the answer is
\* that of the other filters alone, rows of every asset type included.
C12_InvalidAssetTypeFails ==
    /\ (HandlerRan /\ AssetTypeMalformed) =>
          /\ nextCalls[Len(nextCalls)] = InvalidH160
          /\ Cardinality({i \in 1..Len(nextCalls) : nextCalls[i] = InvalidH160}) = 1
          /\ queries = <<>>
          /\ res = <<>>
    /\ (HandlerRan /\ req.route \in UTXORoutes /\ req.sent.assetType = None) =>
          /\ Len(queries) = 1
          /\ nextCalls[Len(nextCalls)] \in {NoError, StorageError}
          /\ (nextCalls[Len(nextCalls)] = NoError /\ ~HasCursor(req.sent)) =>
                /\ Len(res) = 1
                /\ IF req.route = "/aggs-utxo/count"
                   THEN res[1].body.count = Cardinality(EligibleAggs(req.sent))
                   ELSE ThePage.data = Take(AllRows(req.route, req.sent),
                                            PageSizeAsked(req.sent))

\* the malformed assetType on a UTXO route and on /snapshot
C12_Witness ==
    /\ HandlerRan
    /\ AssetTypeMalformed
    /\ req.route = "/aggs-utxo/count"
    /\ nextCalls = <<NoError, NoError, InvalidH160>>

\* the absent assetType: a page with rows of two asset types
C12_WitnessAbsent ==
    /\ HandlerRan
    /\ req.route = "/utxo"
    /\ req.sent.assetType = None
    /\ Len(res) = 1
    /\ \E i, j \in 1..Len(ThePage.data) : ThePage.data[i].assetType # ThePage.data[j].assetType

\* C13: a GET /block/count request is served by the route /block/count: it
\* ends with the Not-implemented error handed to next and no JSON body, and is
\* not served by /block/:hashOrNumber; a GET /block/latest request is served
\* by the route /block/latest.
C13_BlockCountServedByCountRoute ==
    /\ (pc = "done" /\ req.path = BlockCountPath) =>
          /\ req.route = "/block/count"
          /\ req.route # "/block/:hashOrNumber"
          /\ nextCalls = <<NotImplemented>>
          /\ res = <<>>
    /\ (pc = "done" /\ req.path = BlockLatestPath) => req.route = "/block/latest"

PagedRoutes == {"/utxo", "/aggs-utxo"}

\* the row sorts strictly after the decoded cursor
AfterCursor(route, q, row, cursor) ==
    IF route = "/utxo" THEN NumbersLess(KeyOf(cursor), UTXOKey(row))
    ELSE StringsLess(KeyOf(cursor), AggsKey(row, OrderAsked(q)))

\* the request pages backward: it carries a decoded firstEvaluatedKey
Backward == Truthy(req.query.firstEvaluatedKey)

\* the rows the query of the request ranges over, ascending: those before
\* firstEvaluatedKey, those after lastEvaluatedKey, or all of them
RowsInDirection ==
    LET Before(row) == BeforeCursor(req.route, req.sent, row, req.query.firstEvaluatedKey)
        After(row) == AfterCursor(req.route, req.sent, row, req.query.lastEvaluatedKey)
    IN  IF Backward THEN SelectSeq(AllRows(req.route, req.sent), Before)
        ELSE IF Truthy(req.query.lastEvaluatedKey)
        THEN SelectSeq(AllRows(req.route, req.sent), After)
        ELSE AllRows(req.route, req.sent)

\* the cursor text of a row of the route
CursorOf(row) ==
    IF req.route = "/utxo" THEN createUTXOEvaluatedKey(row)
    ELSE createAggsUTXOEvaluatedKey(row, OrderAsked(req.sent))

\* C14: with n the page size asked (15 when none is) and the query limited to
\* n + 1 rows: when more than n rows lie in the queried direction, data is
\* exactly the n rows nearest the cursor and 'has more' in that direction is
\* true; otherwise data is all of them and 'has more' is false; in both cases
\* firstEvaluatedKey and lastEvaluatedKey are the cursors of the first and
\* the last row of data.
C14_PageEnvelope ==
    (GotPage /\ req.route \in PagedRoutes) =>
        LET n == PageSizeAsked(req.sent)
            rows == RowsInDirection
            more == Len(rows) > n
            data == ThePage.data
        IN  /\ more => /\ Len(data) = n
                       /\ data = IF Backward THEN SubSeq(rows, Len(rows) - n + 1, Len(rows))
                                 ELSE SubSeq(rows, 1, n)
            /\ ~more => data = rows
            /\ more <=> IF Backward THEN ThePage.hasPreviousPage ELSE ThePage.hasNextPage
            /\ Len(data) > 0 =>
                  /\ ThePage.firstEvaluatedKey = Some(CursorOf(data[1]))
                  /\ ThePage.lastEvaluatedKey = Some(CursorOf(data[Len(data)]))
            /\ Len(data) = 0 => ThePage.firstEvaluatedKey = None /\ ThePage.lastEvaluatedKey = None

\* a backward page of /utxo with the extra row dropped at its head
C14_Witness ==
    /\ GotPage
    /\ req.route = "/utxo"
    /\ Backward
    /\ PageSizeAsked(req.sent) = 2
    /\ Len(RowsInDirection) > 2
    /\ Len(ThePage.data) = 2
    /\ ThePage.hasPreviousPage
    /\ ThePage.firstEvaluatedKey = Some(CursorOf(RowsInDirection[Len(RowsInDirection) - 1]))

\* a page of the default size: fewer rows than the limit, all of them returned
C14_WitnessDefault ==
    /\ GotPage
    /\ req.route = "/utxo"
    /\ req.sent.itemsPerPage = None
    /\ Len(ThePage.data) > 2
    /\ ~ThePage.hasNextPage

\* C15: a /aggs-utxo request runs its aggregate query in the order
\* "assetType" exactly when an address filter is supplied, else in the order
\* "address"; the rows of the page ascend in the sort key of that order, and
\* firstEvaluatedKey and lastEvaluatedKey are the sort keys of that same
\* order of the first and the last row.
C15_AggsOrderAndCursorAgree ==
    (GotPage /\ req.route = "/aggs-utxo") =>
        LET order == IF IsSome(req.sent.address) THEN "assetType" ELSE "address"
            data == ThePage.data
        IN  /\ queries = <<Query("getAggsUTXO", order)>>
            /\ queries[1].order = "assetType" <=> IsSome(req.sent.address)
            /\ \A i, j \in 1..Len(data) :
                  i < j => StringsLess(AggsKey(data[i], order), AggsKey(data[j], order))
            /\ Len(data) > 0 =>
                  /\ ThePage.firstEvaluatedKey
                        = Some(StringifyStrings(AggsKey(data[1], order)))
                  /\ ThePage.lastEvaluatedKey
                        = Some(StringifyStrings(AggsKey(data[Len(data)], order)))

\* the address pinned: the cursor leads with the asset type
C15_Witness ==
    /\ GotPage
    /\ req.route = "/aggs-utxo"
    /\ req.sent.address = Some("a1")
    /\ queries = <<Query("getAggsUTXO", "assetType")>>
    /\ Len(ThePage.data) = 2
    /\ ThePage.lastEvaluatedKey = Some(StringifyStrings(<<"t2", "a1">>))

\* no address: rows of two addresses, in the order of the address
C15_WitnessByAddress ==
    /\ GotPage
    /\ req.route = "/aggs-utxo"
    /\ req.sent.address = None
    /\ queries = <<Query("getAggsUTXO", "address")>>
    /\ Len(ThePage.data) >= 2
    /\ ThePage.data[1].address = "a1"
    /\ ThePage.data[1].assetType = "t2"
    /\ ThePage.data[2].address = "a2"
    /\ ThePage.data[2].assetType = "t1"

\* syncIfNeeded has run to its end: the middlewares before it called next()
\* and the request has moved on
SyncIfNeededEnded ==
    /\ req.route \in UTXORoutes
    /\ pc \in {"handler", "done"}
    /\ Len(nextCalls) >= BeforeSync(req.route)
    /\ \A i \in 1..BeforeSync(req.route) : nextCalls[i] = NoError

SyncFailedOtherwise ==
    /\ req.query.sync = Some(TRUE)
    /\ IsSome(syncOutcome)
    /\ Get(syncOutcome) # NoError
    /\ ~IsConnectionError(Get(syncOutcome))

\* C16: whatever worker.sync() did, syncIfNeeded either sends a response or
\* calls next once: before the handler runs there is one call of next by
\* syncIfNeeded and no response; after a connection error there is the
\* response and no call; after any other error there is the one call
\* next(error), and the handler does not run and issues no query.
C16_SyncIfNeededOneOutcome ==
    SyncIfNeededEnded =>
        /\ pc = "handler" =>
              /\ Len(nextCalls) = BeforeSync(req.route) + 1
              /\ res = <<>>
        /\ SyncUnreachable =>
              /\ Len(res) = 1
              /\ Len(nextCalls) = BeforeSync(req.route)
        /\ SyncFailedOtherwise =>
              /\ pc = "done"
              /\ Len(nextCalls) = BeforeSync(req.route) + 1
              /\ nextCalls[Len(nextCalls)] = Get(syncOutcome)
              /\ queries = <<>>
              /\ res = <<>>

====
